---- MODULE Spec2Model ----
(***************************************************************************)
(* vboxsf guest shared-folder client: regular-file handles and page-cache  *)
(* writeback (file.c), direct read/write clamping (file.c) and directory   *)
(* snapshot enumeration (dir.c).                                            *)
(*                                                                          *)
(* Three specifications share the variables:                                *)
(*   SpecFile  one inode, its handle list, its pages, the threads that run  *)
(*             sf_reg_open / sf_reg_release / sf_writepage                   *)
(*   SpecRW    sf_reg_read / sf_reg_write on one open file                   *)
(*   SpecDir   sf_dir_open / sf_dir_iterate / sf_dir_release on one file     *)
(***************************************************************************)
EXTENDS Integers, Sequences, FiniteSets, TLC

VARIABLES
    \* ---- inode (struct sf_inode_info / struct inode)
    handle_list,    \* sf_i->handle_list: sequence of handle ids, head first
    force_restat,   \* sf_i->force_restat
    i_size,         \* inode->i_size
    \* ---- struct sf_handle, indexed by the file that allocated it
    access_flags,   \* sf_handle->access_flags
    refcount,       \* sf_handle->refcount (kref)
    closes,         \* number of vboxsf_close calls issued for the handle
    \* ---- struct file of the regular file
    fpc,            \* where each file is in open / release
    fret,           \* last return value of sf_reg_open / sf_reg_release
    todo,           \* pages filemap_write_and_wait still has to visit
    atclose,        \* history: pages dirty when sf_reg_release was entered
    written,        \* history: pages of atclose written to the host since
    failed,         \* history: errors sf_writepage returned since
    \* ---- page cache
    page,           \* page flags: dirty, uptodate, error, locked
    \* ---- threads running sf_writepage
    wp,
    \* ---- direct read / write (SpecRW)
    f_flags_append, \* file->f_flags & O_APPEND
    f_pos,          \* *off
    rw,             \* record of the last sf_reg_read / sf_reg_write call
    rwops,          \* number of sf_reg_read / sf_reg_write calls made
    \* ---- directory file (SpecDir)
    dpc,            \* "closed", "open", "failed", "released"
    info_list,      \* sf_d->info_list: sequence of sf_dir_buf
    ctx_pos,        \* ctx->pos
    dsnap,          \* history: the entries the host listed, in order
    emitted,        \* history: tuples dir_emit accepted since the last rewind
    pass1,          \* history: tuples emitted before the first rewind
    rewound,        \* history: the position was set back to 0 at least once
    dcalls,         \* history: remote calls issued for the directory file
    dlast,          \* record of the last directory operation
    \* ---- directory inode operations (SpecNs)
    dir_restat,     \* sf_i->force_restat of the parent directories
    dnode,          \* d_inode(dentry): i_mode (0: none) and force_restat
    hostpath,       \* whether the host has an object at the dentry's path
    nlast           \* record of the last directory inode operation

vars == <<handle_list, force_restat, i_size, access_flags, refcount, closes,
          fpc, fret, todo, atclose, written, failed, page, wp,
          f_flags_append, f_pos, rw, rwops,
          dpc, info_list, ctx_pos, dsnap, emitted, pass1, rewound, dcalls,
          dlast, dir_restat, dnode, hostpath, nlast>>

fileVars == <<handle_list, access_flags, refcount, closes, fpc, fret, todo,
              atclose, written, failed, page, wp>>
rwVars   == <<f_flags_append, f_pos, rw, rwops>>
dirVars  == <<dpc, info_list, ctx_pos, dsnap, emitted, pass1, rewound, dcalls,
              dlast>>
nsVars   == <<dir_restat, dnode, hostpath, nlast>>

(***************************************************************************)
(* Bounds                                                                   *)
(***************************************************************************)
NPages == 1       \* pages of the inode's mapping
MaxRWOps == 2     \* sf_reg_read / sf_reg_write calls in one behaviour

Files   == {1, 2}              \* struct file objects that open the inode
Pages   == 0..(NPages - 1)
BG      == 0                   \* the background flusher thread
Threads == Files \cup {BG}
NIL     == 0                   \* NULL: no sf_handle

(***************************************************************************)
(* Protocol and kernel constants                                            *)
(***************************************************************************)
\* Access-mode bits; a flag word is the set of its bits, | is \cup.
SHFL_CF_ACCESS_READ      == {"READ"}
SHFL_CF_ACCESS_WRITE     == {"WRITE"}
SHFL_CF_ACCESS_READWRITE == {"READ", "WRITE"}
SHFL_CF_ACCESS_APPEND    == {"APPEND"}

PAGE_SIZE == 4096
SHFL_MAX_RW_COUNT == 16777216      \* 16 * SZ_1M

AccModes == {"O_RDONLY", "O_WRONLY", "O_RDWR"}

(***************************************************************************)
(* sf_reg_open                                                              *)
(***************************************************************************)
\* switch (file->f_flags & O_ACCMODE) ... if (file->f_flags & O_APPEND)
OpenAccessFlags(accmode, append) ==
    (CASE accmode = "O_RDONLY" -> SHFL_CF_ACCESS_READ
       [] accmode = "O_WRONLY" -> SHFL_CF_ACCESS_WRITE
       [] accmode = "O_RDWR"   -> SHFL_CF_ACCESS_READWRITE)
    \cup (IF append THEN SHFL_CF_ACCESS_APPEND ELSE {})

\* What vboxsf_create_at_dentry can hand back: a transport error, or err == 0
\* with a disposition result and a handle that may be SHFL_HANDLE_NIL.
HostOpenOutcomes ==
    { [err |-> "EIO", handle |-> "SHFL_HANDLE_NIL", result |-> "SHFL_NO_RESULT"],
      [err |-> "OK", handle |-> "SHFL_HANDLE_NIL", result |-> "SHFL_FILE_EXISTS"],
      [err |-> "OK", handle |-> "SHFL_HANDLE_NIL", result |-> "SHFL_PATH_NOT_FOUND"],
      [err |-> "OK", handle |-> "H", result |-> "SHFL_FILE_EXISTS"],
      [err |-> "OK", handle |-> "H", result |-> "SHFL_FILE_CREATED"] }

\* an open that looks at the transport error only
reg_open_err_nonil(host) == host.err

\* err after the NIL-handle test of sf_reg_open
reg_open_err(host) ==
    IF host.err = "OK" /\ host.handle = "SHFL_HANDLE_NIL"
    THEN (IF host.result = "SHFL_FILE_EXISTS" THEN "EEXIST" ELSE "ENOENT")
    ELSE host.err

kref_init == 1

\* sf_reg_open with its inputs: whether kmalloc gave a sf_handle, the open
\* flags, and what the host answered
sf_reg_open_step(f, alloc, accmode, append, host) ==
    /\ fpc[f] = "init"
    /\ LET err == IF alloc THEN reg_open_err(host) ELSE "ENOMEM" IN
         IF err # "OK"
         THEN /\ fpc' = [fpc EXCEPT ![f] = "failed"]
              /\ fret' = [fret EXCEPT ![f] = err]
              /\ UNCHANGED <<force_restat, access_flags, refcount, handle_list>>
         ELSE /\ force_restat' = TRUE
              /\ access_flags' = [access_flags EXCEPT
                                    ![f] = OpenAccessFlags(accmode, append)]
              /\ refcount' = [refcount EXCEPT ![f] = kref_init]
              /\ handle_list' = <<f>> \o handle_list        \* list_add
              /\ fpc' = [fpc EXCEPT ![f] = "open"]
              /\ fret' = [fret EXCEPT ![f] = "OK"]
    /\ UNCHANGED <<i_size, closes, todo, atclose, written, failed, page, wp>>
    /\ UNCHANGED <<rwVars, dirVars, nsVars>>

sf_reg_open(f) ==
    \E alloc \in BOOLEAN, accmode \in AccModes, append \in BOOLEAN,
       host \in HostOpenOutcomes :
         sf_reg_open_step(f, alloc, accmode, append, host)

(***************************************************************************)
(* kref and sf_handle_release                                               *)
(***************************************************************************)
kref_get_noinc(rc) == rc
kref_get(rc) == rc + 1

\* kref_put: the count after the decrement, and whether release() runs
kref_put(rc) == rc - 1
kref_put_releases(rc) == rc - 1 = 0

\* kref_put(&sf_handle->refcount, sf_handle_release), and in
\* sf_handle_release: vboxsf_close(root, handle); kfree(sf_handle)
PutHandle(h) ==
    /\ refcount' = [refcount EXCEPT ![h] = kref_put(refcount[h])]
    /\ closes' = [closes EXCEPT
                    ![h] = IF kref_put_releases(refcount[h]) THEN @ + 1 ELSE @]
    /\ access_flags' = [access_flags EXCEPT
                    ![h] = IF kref_put_releases(refcount[h]) THEN {} ELSE @]

(***************************************************************************)
(* sf_get_writeable_handle                                                  *)
(***************************************************************************)
IsWriteable(flags) ==
    \/ flags = SHFL_CF_ACCESS_WRITE
    \/ flags = SHFL_CF_ACCESS_READWRITE

RECURSIVE FirstWriteable(_, _)
FirstWriteable(list, acc) ==
    IF list = <<>> THEN NIL
    ELSE IF IsWriteable(acc[Head(list)]) THEN Head(list)
    ELSE FirstWriteable(Tail(list), acc)

sf_get_writeable_handle(list, acc) == FirstWriteable(list, acc)

(***************************************************************************)
(* Page cache                                                               *)
(***************************************************************************)
DirtyPages == {p \in Pages : page[p].dirty}
page_offset(p) == p * PAGE_SIZE

\* A store through a shared writable mapping of f: filemap_fault brings the
\* page up to date, sf_page_mkwrite locks it, the fault handler marks it dirty
\* (__set_page_dirty_nobuffers) and unlocks it.
sf_page_mkwrite(f, p) ==
    /\ fpc[f] = "open"
    /\ SHFL_CF_ACCESS_READWRITE \subseteq access_flags[f]
    /\ page_offset(p) < i_size
    /\ ~page[p].locked
    /\ ~page[p].dirty
    /\ page' = [page EXCEPT ![p].dirty = TRUE, ![p].uptodate = TRUE]
    /\ UNCHANGED <<handle_list, force_restat, i_size, access_flags, refcount,
                   closes, fpc, fret, todo, atclose, written, failed, wp>>
    /\ UNCHANGED <<rwVars, dirVars, nsVars>>

(***************************************************************************)
(* sf_writepage                                                             *)
(***************************************************************************)
\* if (off + PAGE_SIZE > size) nwrite = size & ~PAGE_MASK;
sf_writepage_nwrite(off, size) ==
    IF off + PAGE_SIZE > size THEN size % PAGE_SIZE ELSE PAGE_SIZE

WpIdle == [pc |-> "idle", page |-> 0, h |-> NIL, nwrite |-> 0, err |-> "OK"]

\* Files whose sf_reg_release is between entry and its kref_put
Closing == {f \in Files : fpc[f] \in {"flush", "put"}}

\* sf_writepage returns `ret` for page p to its caller.  In a file's
\* filemap_write_and_wait, write_cache_pages goes on to the next page; after
\* an error it goes on or gives up, depending on the kernel (before 5.0 an
\* integrity sync stops at the first ->writepage error).
NoteReturn(t, p, ret) ==
    /\ \E stop \in BOOLEAN :
         todo' = [f \in Files |->
                    IF f # t THEN todo[f]
                    ELSE IF stop /\ ret # "OK" THEN {}
                    ELSE todo[f] \ {p}]
    /\ failed' = [f \in Files |->
                    IF f \in Closing /\ ret # "OK"
                    THEN failed[f] \cup {ret} ELSE failed[f]]

\* The writeback caller (write_cache_pages) locks a dirty page and clears its
\* dirty flag (clear_page_dirty_for_io), then calls ->writepage.  sf_writepage
\* computes nwrite and looks for a writable handle under handle_list_mutex.
sf_writepage_begin(t, p) ==
    /\ wp[t].pc = "idle"
    /\ IF t = BG THEN TRUE ELSE fpc[t] = "flush" /\ p \in todo[t]
    /\ page[p].dirty /\ ~page[p].locked
    /\ LET h == sf_get_writeable_handle(handle_list, access_flags) IN
       IF h = NIL
       THEN \* return -EBADF
            /\ page' = [page EXCEPT ![p].dirty = FALSE, ![p].locked = TRUE]
            /\ wp' = [wp EXCEPT ![t] = WpIdle]
            /\ NoteReturn(t, p, "EBADF")
            /\ UNCHANGED refcount
       ELSE /\ page' = [page EXCEPT ![p].dirty = FALSE, ![p].locked = TRUE]
            /\ refcount' = [refcount EXCEPT ![h] = kref_get(refcount[h])]
            /\ wp' = [wp EXCEPT ![t] =
                        [pc |-> "write", page |-> p, h |-> h,
                         nwrite |-> sf_writepage_nwrite(page_offset(p), i_size),
                         err |-> "OK"]]
            /\ UNCHANGED <<todo, failed>>
    /\ UNCHANGED <<handle_list, force_restat, i_size, access_flags, closes,
                   fpc, fret, atclose, written>>
    /\ UNCHANGED <<rwVars, dirVars, nsVars>>

\* err = vboxsf_write(sf_handle->root, sf_handle->handle, off, &nwrite, ...)
sf_writepage_write(t) ==
    /\ wp[t].pc = "write"
    /\ \E err \in {"OK", "EIO"} :
         /\ wp' = [wp EXCEPT ![t].pc = "put", ![t].err = err]
         /\ written' = [f \in Files |->
                          IF f \in Closing /\ err = "OK"
                             /\ wp[t].page \in atclose[f]
                          THEN written[f] \cup {wp[t].page} ELSE written[f]]
    /\ UNCHANGED <<handle_list, force_restat, i_size, access_flags, refcount,
                   closes, fpc, fret, todo, atclose, failed, page>>
    /\ UNCHANGED <<rwVars, dirVars, nsVars>>

\* kref_put(&sf_handle->refcount, sf_handle_release)
sf_writepage_put(t) ==
    /\ wp[t].pc = "put"
    /\ PutHandle(wp[t].h)
    /\ wp' = [wp EXCEPT ![t].pc = "finish"]
    /\ UNCHANGED <<handle_list, force_restat, i_size,
                   fpc, fret, todo, atclose, written, failed, page>>
    /\ UNCHANGED <<rwVars, dirVars, nsVars>>

\* if (err == 0) { ClearPageError; force_restat = 1 } else ClearPageUptodate;
\* unlock_page(page); return err;
sf_writepage_finish(t) ==
    /\ wp[t].pc = "finish"
    /\ LET p == wp[t].page
           err == wp[t].err
       IN /\ IF err = "OK"
             THEN /\ page' = [page EXCEPT ![p].error = FALSE,
                                          ![p].locked = FALSE]
                  /\ force_restat' = TRUE
             ELSE /\ page' = [page EXCEPT ![p].uptodate = FALSE,
                                          ![p].locked = FALSE]
                  /\ UNCHANGED force_restat
          /\ wp' = [wp EXCEPT ![t] = WpIdle]
          /\ NoteReturn(t, p, err)
    /\ UNCHANGED <<handle_list, i_size, access_flags, refcount, closes,
                   fpc, fret, atclose, written>>
    /\ UNCHANGED <<rwVars, dirVars, nsVars>>

(***************************************************************************)
(* sf_reg_release                                                           *)
(***************************************************************************)
\* filemap_write_and_wait(inode->i_mapping) is entered: the pages dirty now
\* are the ones it will visit.
sf_reg_release_begin(f) ==
    /\ fpc[f] = "open"
    /\ fpc' = [fpc EXCEPT ![f] = "flush"]
    /\ todo' = [todo EXCEPT ![f] = DirtyPages]
    /\ atclose' = [atclose EXCEPT ![f] = DirtyPages]
    /\ written' = [written EXCEPT ![f] = {}]
    /\ failed' = [failed EXCEPT ![f] = {}]
    /\ UNCHANGED <<handle_list, force_restat, i_size, access_flags, refcount,
                   closes, fret, page, wp>>
    /\ UNCHANGED <<rwVars, dirVars, nsVars>>

\* write_cache_pages finds a page it tagged no longer dirty (another thread
\* wrote it back meanwhile): it takes the page lock, sees !PageDirty, goes on.
flush_skip(f, p) ==
    /\ fpc[f] = "flush" /\ wp[f].pc = "idle"
    /\ p \in todo[f]
    /\ ~page[p].locked /\ ~page[p].dirty
    /\ todo' = [todo EXCEPT ![f] = @ \ {p}]
    /\ UNCHANGED <<handle_list, force_restat, i_size, access_flags, refcount,
                   closes, fpc, fret, atclose, written, failed, page, wp>>
    /\ UNCHANGED <<rwVars, dirVars, nsVars>>

\* filemap_write_and_wait has returned
flush_returned_early(f) == TRUE
flush_returned(f) == todo[f] = {} /\ wp[f].pc = "idle"

\* mutex_lock; list_del(&sf_handle->head); mutex_unlock
\* a release that leaves the handle on the list
list_del_keep(list, h) == list

RECURSIVE list_del(_, _)
list_del(list, h) ==
    IF list = <<>> THEN <<>>
    ELSE IF Head(list) = h THEN Tail(list)
    ELSE <<Head(list)>> \o list_del(Tail(list), h)

sf_reg_release_list_del(f) ==
    /\ fpc[f] = "flush"
    /\ wp[f].pc = "idle"
    /\ flush_returned(f)
    /\ handle_list' = list_del(handle_list, f)
    /\ fpc' = [fpc EXCEPT ![f] = "put"]
    /\ UNCHANGED <<force_restat, i_size, access_flags, refcount, closes,
                   fret, todo, atclose, written, failed, page, wp>>
    /\ UNCHANGED <<rwVars, dirVars, nsVars>>

\* kref_put(&sf_handle->refcount, sf_handle_release); private_data = NULL
sf_reg_release_put(f) ==
    /\ fpc[f] = "put"
    /\ PutHandle(f)
    /\ fpc' = [fpc EXCEPT ![f] = "done"]
    /\ fret' = [fret EXCEPT ![f] = "OK"]
    /\ atclose' = [atclose EXCEPT ![f] = {}]
    /\ written' = [written EXCEPT ![f] = {}]
    /\ failed' = [failed EXCEPT ![f] = {}]
    /\ UNCHANGED <<handle_list, force_restat, i_size, todo, page, wp>>
    /\ UNCHANGED <<rwVars, dirVars, nsVars>>

(***************************************************************************)
(* SpecFile                                                                 *)
(***************************************************************************)
RWIdle == [op |-> "none", size |-> 0, pos |-> 0, req |-> 0, calls |-> 0,
           host |-> 0, err |-> "OK", ret |-> 0, off0 |-> 0, size0 |-> 0]
DirIdle == [op |-> "none", ret |-> 0, pos0 |-> 0, cap |-> 0, n |-> 0]
Parents == {"P", "Q"}     \* the directory inodes the operations are given
NoInode == [mode |-> 0, restat |-> FALSE, hmode |-> 0]
NsIdle  == [op |-> "none", ret |-> 0, calls |-> <<>>, is_dir |-> FALSE,
            mode |-> 0, hmode |-> 0, existed |-> FALSE, flags |-> {},
            same_root |-> TRUE,
            new_parent |-> "P"]

RWQuiet  == f_flags_append = FALSE /\ f_pos = 0 /\ rw = RWIdle /\ rwops = 0
DirQuiet == /\ dpc = "closed" /\ info_list = <<>> /\ ctx_pos = 0
            /\ dsnap = <<>> /\ emitted = <<>> /\ pass1 = <<>>
            /\ rewound = FALSE /\ dcalls = <<>> /\ dlast = DirIdle
NsQuiet  == /\ dir_restat = [d \in Parents |-> FALSE] /\ dnode = NoInode
            /\ hostpath = FALSE /\ nlast = NsIdle
FileQuiet ==
    /\ handle_list = <<>>
    /\ access_flags = [f \in Files |-> {}]
    /\ refcount = [f \in Files |-> 0]
    /\ closes = [f \in Files |-> 0]
    /\ fpc = [f \in Files |-> "init"]
    /\ fret = [f \in Files |-> "none"]
    /\ todo = [f \in Files |-> {}]
    /\ atclose = [f \in Files |-> {}]
    /\ written = [f \in Files |-> {}]
    /\ failed = [f \in Files |-> {}]
    /\ page = [p \in Pages |-> [dirty |-> FALSE, uptodate |-> TRUE,
                                error |-> FALSE, locked |-> FALSE]]
    /\ wp = [t \in Threads |-> WpIdle]

InitFile ==
    /\ FileQuiet
    /\ force_restat = FALSE
    /\ i_size = NPages * PAGE_SIZE
    /\ RWQuiet
    /\ DirQuiet
    /\ NsQuiet

NextFile ==
    \/ \E f \in Files : sf_reg_open(f)
    \/ \E f \in Files, p \in Pages : sf_page_mkwrite(f, p)
    \/ \E t \in Threads, p \in Pages : sf_writepage_begin(t, p)
    \/ \E t \in Threads : sf_writepage_write(t)
    \/ \E t \in Threads : sf_writepage_put(t)
    \/ \E t \in Threads : sf_writepage_finish(t)
    \/ \E f \in Files : sf_reg_release_begin(f)
    \/ \E f \in Files, p \in Pages : flush_skip(f, p)
    \/ \E f \in Files : sf_reg_release_list_del(f)
    \/ \E f \in Files : sf_reg_release_put(f)

SpecFile == InitFile /\ [][NextFile]_vars

(***************************************************************************)
(* sf_reg_read / sf_reg_write (SpecRW): one file, open on the inode          *)
(***************************************************************************)
\* if (size > SHFL_MAX_RW_COUNT) n = SHFL_MAX_RW_COUNT; else n = size;
ClampRW_none(size) == size
ClampRW(size) == IF size > SHFL_MAX_RW_COUNT THEN SHFL_MAX_RW_COUNT ELSE size

\* the lengths a caller passes
RWSizes == {0, 1, 3, SHFL_MAX_RW_COUNT - 1, SHFL_MAX_RW_COUNT,
            SHFL_MAX_RW_COUNT + 1, 2 * SHFL_MAX_RW_COUNT}

\* vboxsf_read / vboxsf_write: an error, or 0 with the in/out count set to
\* what the host transferred, at most what was asked for
HostCounts(req) == {n \in {0, 1, req - 1, req} : 0 <= n /\ n <= req}

sf_reg_read ==
    /\ rwops < MaxRWOps
    /\ rwops' = rwops + 1
    /\ \E size \in RWSizes :
         LET pos == f_pos
             nread == ClampRW(size)
             call == [RWIdle EXCEPT !.op = "read", !.size = size, !.pos = pos,
                                    !.off0 = f_pos, !.size0 = i_size]
         IN IF size = 0
            THEN /\ rw' = call
                 /\ UNCHANGED f_pos
            ELSE \E err \in {"OK", "EIO"}, n \in HostCounts(nread) :
                 IF err # "OK"
                 THEN /\ rw' = [call EXCEPT !.req = nread, !.calls = 1,
                                            !.err = err]
                      /\ UNCHANGED f_pos
                 ELSE /\ rw' = [call EXCEPT !.req = nread, !.calls = 1,
                                            !.host = n, !.ret = n]
                      /\ f_pos' = f_pos + n
    /\ UNCHANGED <<force_restat, i_size, f_flags_append, fileVars, dirVars,
                   nsVars>>

\* if (pos + nwritten > i_size_read(inode)) i_size_write(inode, pos + nwritten)
write_new_size_always(pos, nwritten, size) == pos + nwritten
write_new_size(pos, nwritten, size) ==
    IF pos + nwritten > size THEN pos + nwritten ELSE size

\* invalidate_mapping_pages(mapping, pos >> PAGE_SHIFT,
\*                          (pos + nwritten) >> PAGE_SHIFT):
\* clean, unlocked pages of the range leave the page cache
invalidate_mapping_pages(pg, first, last) ==
    [p \in Pages |->
        IF first <= p /\ p <= last /\ ~pg[p].dirty /\ ~pg[p].locked
        THEN [pg[p] EXCEPT !.uptodate = FALSE] ELSE pg[p]]

sf_reg_write ==
    /\ rwops < MaxRWOps
    /\ rwops' = rwops + 1
    /\ \E size \in RWSizes :
         LET pos == IF f_flags_append THEN i_size ELSE f_pos
             nwritten == ClampRW(size)
             call == [RWIdle EXCEPT !.op = "write", !.size = size, !.pos = pos,
                                    !.off0 = f_pos, !.size0 = i_size]
         IN IF size = 0
            THEN /\ rw' = call
                 /\ UNCHANGED <<f_pos, i_size, force_restat, page>>
            ELSE \E wait \in {"OK", "EIO"}, err \in {"OK", "EIO"},
                    n \in HostCounts(nwritten) :
                 IF wait # "OK"            \* filemap_fdatawait_range failed
                 THEN /\ rw' = [call EXCEPT !.req = nwritten, !.err = wait]
                      /\ UNCHANGED <<f_pos, i_size, force_restat, page>>
                 ELSE IF err # "OK"        \* vboxsf_write failed
                 THEN /\ rw' = [call EXCEPT !.req = nwritten, !.calls = 1,
                                            !.err = err]
                      /\ UNCHANGED <<f_pos, i_size, force_restat, page>>
                 ELSE /\ rw' = [call EXCEPT !.req = nwritten, !.calls = 1,
                                            !.host = n, !.ret = n]
                      /\ i_size' = write_new_size(pos, n, i_size)
                      /\ page' = invalidate_mapping_pages(page,
                                     pos \div PAGE_SIZE, (pos + n) \div PAGE_SIZE)
                      /\ force_restat' = TRUE
                      /\ f_pos' = pos + n
    /\ UNCHANGED <<f_flags_append, handle_list, access_flags, refcount,
                   closes, fpc, fret, todo, atclose, written, failed, wp>>
    /\ UNCHANGED <<dirVars, nsVars>>

\* the file as the caller left it: O_APPEND or not, *off from llseek,
\* the inode's size from the last stat
InitRW ==
    /\ FileQuiet
    /\ DirQuiet
    /\ NsQuiet
    /\ force_restat = FALSE
    /\ i_size \in {0, 3, PAGE_SIZE}
    /\ f_flags_append \in BOOLEAN
    /\ f_pos \in {0, 1, 3, PAGE_SIZE + 1}
    /\ rw = RWIdle
    /\ rwops = 0

NextRW == sf_reg_read \/ sf_reg_write

SpecRW == InitRW /\ [][NextRW]_vars

Max(a, b) == IF a >= b THEN a ELSE b
Min(a, b) == IF a <= b THEN a ELSE b

\* C5: after a successful sf_reg_write of k > 0 bytes at offset pos (the
\* inode's size under O_APPEND, *off otherwise) the tracked size is
\* max(old size, pos + k), force_restat is set and *off is pos + k; the
\* size has not decreased.
C5_WriteExtendsSize ==
    (rw.op = "write" /\ rw.err = "OK" /\ rw.ret > 0) =>
        /\ i_size = Max(rw.size0, rw.pos + rw.ret)
        /\ (rw.pos = rw.size0 => i_size = rw.size0 + rw.ret)
        /\ i_size >= rw.size0
        /\ force_restat
        /\ f_pos = rw.pos + rw.ret

\* k bytes written at offset size(node) of a non-empty file, without O_APPEND
C5_Witness ==
    /\ rw.op = "write" /\ rw.err = "OK" /\ rw.ret > 0
    /\ ~f_flags_append /\ rw.size0 > 0 /\ rw.pos = rw.size0
    /\ i_size = rw.size0 + rw.ret

\* C6: sf_reg_read and sf_reg_write issue at most one remote transfer, ask
\* for min(size, SHFL_MAX_RW_COUNT) bytes, return the count the host reports
\* (never more than asked); size 0 returns 0 with no remote call; an error
\* is returned with *off unchanged.
C6_OneClampedTransfer ==
    rw.op \in {"read", "write"} =>
        /\ rw.calls <= 1
        /\ (rw.size = 0 => rw.calls = 0 /\ rw.ret = 0 /\ rw.err = "OK"
                             /\ f_pos = rw.off0)
        /\ (rw.calls = 1 => rw.req = Min(rw.size, SHFL_MAX_RW_COUNT))
        /\ (rw.err = "OK" /\ rw.size > 0 =>
               rw.calls = 1 /\ rw.ret = rw.host /\ rw.ret <= rw.req
               /\ rw.ret <= SHFL_MAX_RW_COUNT)
        /\ (rw.err # "OK" => f_pos = rw.off0 /\ rw.ret = 0)

\* a request larger than the maximum, answered in full
C6_Witness ==
    /\ rw.op = "read" /\ rw.size > SHFL_MAX_RW_COUNT
    /\ rw.err = "OK" /\ rw.ret = SHFL_MAX_RW_COUNT

(***************************************************************************)
(* Properties of the handle registry and of writeback (SpecFile)            *)
(***************************************************************************)
Range(seq) == {seq[i] : i \in DOMAIN seq}

Opened(h) == fpc[h] \in {"open", "flush", "put", "done"}
\* the reference of the file that opened h, until sf_reg_release puts it
FileRef(h) == IF fpc[h] \in {"open", "flush", "put"} THEN 1 ELSE 0
\* the references sf_get_writeable_handle took and sf_writepage has not put
WritebackRefs(h) ==
    Cardinality({t \in Threads : wp[t].pc \in {"write", "put"} /\ wp[t].h = h})
Outstanding(h) == FileRef(h) + WritebackRefs(h)

\* C1: under every interleaving of open, release and writeback get/put, a
\* handle's remote close has been issued exactly when it was opened and its
\* outstanding references (the file's plus writeback's) are zero, and it is
\* never issued twice.
C1_CloseOnceAtZero ==
    \A h \in Files :
        /\ closes[h] <= 1
        /\ (closes[h] = 1) <=> (Opened(h) /\ Outstanding(h) = 0)
        /\ Opened(h) => refcount[h] = Outstanding(h)

\* the file was released while writeback held the handle; writeback's put
\* was the last one and issued the close
C1_Witness ==
    \E h \in Files, t \in Threads :
        /\ t # h /\ fpc[h] = "done" /\ closes[h] = 1
        /\ wp[t].pc = "finish" /\ wp[t].h = h

IncludesWrite(flags) == "WRITE" \in flags

\* C2: sf_get_writeable_handle returns a handle, its count raised by one,
\* whenever some handle on the list has an access mode that includes write
\* (with or without append), and NULL only when none has.
C2_AcquireIffIncludesWrite ==
    [][\A t \in Threads, p \in Pages :
         sf_writepage_begin(t, p) =>
            IF \E h \in Range(handle_list) : IncludesWrite(access_flags[h])
            THEN /\ wp'[t].pc = "write"
                 /\ refcount'[wp'[t].h] = refcount[wp'[t].h] + 1
            ELSE wp'[t].pc = "idle"]_vars

NeedsRetry(pg) == pg.dirty \/ pg.error

\* C4: when sf_writepage fails (no writable handle, or the remote write
\* fails) the page is left marked as needing retry and its data is kept.
C4_FailedWritebackKeepsPage ==
    [][\A t \in Threads :
         /\ \A p \in Pages :
               (sf_writepage_begin(t, p) /\ wp'[t].pc = "idle")
                  => (NeedsRetry(page'[p]) /\ page'[p].uptodate)
         /\ (sf_writepage_finish(t) /\ wp[t].err # "OK")
               => (NeedsRetry(page'[wp[t].page])
                   /\ page'[wp[t].page].uptodate)]_vars

(***************************************************************************)
(* Directory files (SpecDir): sf_dir_open reads the whole listing into a    *)
(* list of buffers, sf_dir_iterate walks it, sf_dir_release frees it.       *)
(***************************************************************************)
MaxEntries == 3   \* entries the host lists for the directory
MaxCap     == 2   \* entries one getdents buffer has room for

ENOENT == 2
EIO    == 5
ENOMEM == 12
EINVAL == 22

\* 0xbeef, the offset between a position and its fabricated inode number
FAKE_INO_BASE == 48879
\* largest value of ino_t.  On the builds where ino_t is narrower than
\* loff_t it is 2^32 - 1; scaled down here so that a directory of
\* MaxEntries entries has a position whose sanity value does not fit.
INO_T_MAX == FAKE_INO_BASE + 1

\* struct shfl_dirinfo as the host lays it out in a buffer: the fields
\* before name.string, then name.size cells of name (the terminator last).
\* Offsets of the fields the driver reads, counted in cells.
DIRINFO_MODE        == 1    \* info.attr.mode
DIRINFO_NAME_SIZE   == 2    \* name.size
DIRINFO_NAME_LENGTH == 3    \* name.length
DIRINFO_NAME_STRING == 3    \* offsetof(struct shfl_dirinfo, name.string)

\* RTFS_TYPE_* bits of info.attr.mode
SHFL_TYPE_MASK      == 61440
SHFL_TYPE_FIFO      == 4096
SHFL_TYPE_DEV_CHAR  == 8192
SHFL_TYPE_DIRECTORY == 16384
SHFL_TYPE_DEV_BLOCK == 24576
SHFL_TYPE_FILE      == 32768
SHFL_TYPE_SYMLINK   == 40960
SHFL_TYPE_SOCKET    == 49152
SHFL_TYPE_WHITEOUT  == 57344

\* what the host can list: a regular file "a" (mode 0644), a directory "bb"
\* (mode 0755) and a symlink whose name holds a byte the nls table cannot
\* convert
BadByte == 255
EntryKinds ==
    { [name |-> <<97>>, mode |-> SHFL_TYPE_FILE + 420],
      [name |-> <<98, 98>>, mode |-> SHFL_TYPE_DIRECTORY + 493],
      [name |-> <<99, BadByte, 99>>, mode |-> SHFL_TYPE_SYMLINK + 511] }

Listings == UNION { [1..k -> EntryKinds] : k \in 0..MaxEntries }

\* one record as the host writes it
DirInfoCells(e) ==
    <<e.mode, Len(e.name) + 1, Len(e.name)>> \o e.name \o <<0>>

RECURSIVE BufCells(_)
BufCells(es) ==
    IF es = <<>> THEN <<>> ELSE DirInfoCells(Head(es)) \o BufCells(Tail(es))

\* vboxsf_dir_read_all: the listing arrives in buffers, in order; es[1..i],
\* es[i+1..j] and the rest, a buffer possibly holding no entry at all
sf_dir_buf(es) == [entries |-> Len(es), buf |-> BufCells(es)]

vboxsf_dir_read_all(es, i, j, keepEmpty) ==
    LET all == << sf_dir_buf(SubSeq(es, 1, i)),
                  sf_dir_buf(SubSeq(es, i + 1, j)),
                  sf_dir_buf(SubSeq(es, j + 1, Len(es))) >>
    IN  IF keepEmpty THEN all
        ELSE SelectSeq(all, LAMBDA b : b.entries > 0)

\* vboxsf_nlscpy: converts the name, or fails on a sequence it cannot convert
vboxsf_nlscpy(name) ==
    IF \E k \in 1..Len(name) : name[k] = BadByte
    THEN [err |-> 0 - EINVAL, d_name |-> <<>>]
    ELSE [err |-> 0, d_name |-> name]

\* mode & SHFL_TYPE_MASK, for a 16 bit mode
TypeBits(mode) == ((mode % 65536) \div 4096) * 4096

sf_get_d_type(mode) ==
    LET t == TypeBits(mode) IN
    CASE t = SHFL_TYPE_FIFO      -> "DT_FIFO"
      [] t = SHFL_TYPE_DEV_CHAR  -> "DT_CHR"
      [] t = SHFL_TYPE_DIRECTORY -> "DT_DIR"
      [] t = SHFL_TYPE_DEV_BLOCK -> "DT_BLK"
      [] t = SHFL_TYPE_FILE      -> "DT_REG"
      [] t = SHFL_TYPE_SYMLINK   -> "DT_LNK"
      [] t = SHFL_TYPE_SOCKET    -> "DT_SOCK"
      [] t = SHFL_TYPE_WHITEOUT  -> "DT_WHT"
      [] OTHER                   -> "DT_UNKNOWN"

\* the cell at offset k of a buffer; the buffer is allocated larger than
\* the records it holds and the rest of it is zero
Cell(buf, k) == IF k \in 1..Len(buf) THEN buf[k] ELSE 0

\* a walk that forgets the terminator counted in name.size
dirinfo_size_nolen(buf, off) ==
    DIRINFO_NAME_STRING + Cell(buf, off + DIRINFO_NAME_LENGTH)

\* size of the record at offset off: offsetof(name.string) + name.size
dirinfo_size(buf, off) ==
    DIRINFO_NAME_STRING + Cell(buf, off + DIRINFO_NAME_SIZE)

\* the for loop of sf_getdent: step over n records from offset off
RECURSIVE dirinfo_walk(_, _, _)
dirinfo_walk(buf, off, n) ==
    IF n = 0 THEN off
    ELSE dirinfo_walk(buf, off + dirinfo_size(buf, off), n - 1)

RECURSIVE sf_getdent_from(_, _, _)
sf_getdent_from(list, pos, cur) ==
    IF list = <<>> THEN [err |-> 1, d_name |-> <<>>, d_type |-> "DT_UNKNOWN"]
    ELSE LET b == Head(list) IN
         IF pos >= cur + b.entries
         THEN sf_getdent_from(Tail(list), pos, cur + b.entries)
         ELSE LET info == dirinfo_walk(b.buf, 0, pos - cur)
                  length == Cell(b.buf, info + DIRINFO_NAME_LENGTH)
                  cp == vboxsf_nlscpy(
                          [k \in 1..length |->
                              Cell(b.buf, info + DIRINFO_NAME_STRING + k)])
              IN  [err |-> cp.err, d_name |-> cp.d_name,
                   d_type |->
                       sf_get_d_type(Cell(b.buf, info + DIRINFO_MODE))]

sf_getdent(list, pos) == sf_getdent_from(list, pos, 0)

\* an ino_t as wide as loff_t: the conversion loses nothing
ino_t_of_wide(sanity) == sanity

\* fake_ino = sanity: the conversion of a loff_t to ino_t
ino_t_of(sanity) == sanity % (INO_T_MAX + 1)

\* a loop that gives up at a record whose name cannot be converted
RECURSIVE sf_dir_iterate_loop_abort(_, _, _, _)
sf_dir_iterate_loop_abort(list, pos, cap, out) ==
    LET r == sf_getdent(list, pos) IN
    IF r.err # 0
    THEN [pos |-> pos, out |-> out, ret |-> IF r.err = 1 THEN 0 ELSE r.err]
    ELSE LET sanity == pos + FAKE_INO_BASE
             fake_ino == ino_t_of(sanity)
         IN  IF sanity - fake_ino # 0
             THEN [pos |-> pos, out |-> out, ret |-> 0 - EINVAL]
             ELSE IF cap = 0
             THEN [pos |-> pos, out |-> out, ret |-> 0]
             ELSE sf_dir_iterate_loop_abort(list, pos + 1, cap - 1,
                      Append(out, <<r.d_name, r.d_type, fake_ino>>))

\* a loop that steps over the entry dir_emit refused
RECURSIVE sf_dir_iterate_loop_skip(_, _, _, _)
sf_dir_iterate_loop_skip(list, pos, cap, out) ==
    LET r == sf_getdent(list, pos) IN
    IF r.err # 0
    THEN IF r.err = 1
         THEN [pos |-> pos, out |-> out, ret |-> 0]
         ELSE sf_dir_iterate_loop_skip(list, pos + 1, cap, out)
    ELSE LET sanity == pos + FAKE_INO_BASE
             fake_ino == ino_t_of(sanity)
         IN  IF sanity - fake_ino # 0
             THEN [pos |-> pos, out |-> out, ret |-> 0 - EINVAL]
             ELSE IF cap = 0
             THEN [pos |-> pos + 1, out |-> out, ret |-> 0]
             ELSE sf_dir_iterate_loop_skip(list, pos + 1, cap - 1,
                      Append(out, <<r.d_name, r.d_type, fake_ino>>))

\* the for (;;) loop of sf_dir_iterate, from ctx->pos = pos, with a consumer
\* whose dir_emit accepts cap more entries; out collects what it accepted
RECURSIVE sf_dir_iterate_loop(_, _, _, _)
sf_dir_iterate_loop(list, pos, cap, out) ==
    LET r == sf_getdent(list, pos) IN
    IF r.err # 0
    THEN IF r.err = 1
         THEN [pos |-> pos, out |-> out, ret |-> 0]
         ELSE sf_dir_iterate_loop(list, pos + 1, cap, out)
    ELSE LET sanity == pos + FAKE_INO_BASE
             fake_ino == ino_t_of(sanity)
         IN  IF sanity - fake_ino # 0
             THEN [pos |-> pos, out |-> out, ret |-> 0 - EINVAL]
             ELSE IF cap = 0
             THEN [pos |-> pos, out |-> out, ret |-> 0]
             ELSE sf_dir_iterate_loop(list, pos + 1, cap - 1,
                      Append(out, <<r.d_name, r.d_type, fake_ino>>))

\* ---- sf_dir_open
DirOpenFlags == {"SHFL_CF_DIRECTORY", "SHFL_CF_ACT_OPEN_IF_EXISTS",
                 "SHFL_CF_ACT_FAIL_IF_NEW"} \cup SHFL_CF_ACCESS_READ

\* what vboxsf_create_at_dentry can come back with
HostDirOutcomes ==
    { [err |-> 0 - EIO, result |-> "none", handle |-> "SHFL_HANDLE_NIL"],
      [err |-> 0, result |-> "SHFL_FILE_EXISTS", handle |-> "H"],
      [err |-> 0, result |-> "SHFL_PATH_NOT_FOUND",
       handle |-> "SHFL_HANDLE_NIL"],
      [err |-> 0, result |-> "SHFL_FILE_NOT_FOUND",
       handle |-> "SHFL_HANDLE_NIL"] }

RemoteCall(call, handle, flags, err, result) ==
    [call |-> call, handle |-> handle, flags |-> flags, err |-> err,
     result |-> result]

\* an open that closes the host handle only after it has read the listing
sf_dir_open_calls_leak(host, rerr) ==
    <<RemoteCall("create", host.handle, DirOpenFlags, host.err, host.result)>>
    \o (IF host.err = 0 /\ host.result = "SHFL_FILE_EXISTS"
        THEN <<RemoteCall("read_all", host.handle, {}, rerr, "none")>>
             \o (IF rerr = 0
                 THEN <<RemoteCall("close", host.handle, {}, 0, "none")>>
                 ELSE <<>>)
        ELSE <<>>)

\* the remote calls sf_dir_open makes once sf_d is allocated, in order
sf_dir_open_calls(host, rerr) ==
    <<RemoteCall("create", host.handle, DirOpenFlags, host.err, host.result)>>
    \o (IF host.err = 0
        THEN (IF host.result = "SHFL_FILE_EXISTS"
              THEN <<RemoteCall("read_all", host.handle, {}, rerr, "none")>>
              ELSE <<>>)
             \o <<RemoteCall("close", host.handle, {}, 0, "none")>>
        ELSE <<>>)

sf_dir_open_err(host, rerr) ==
    IF host.err # 0 THEN host.err
    ELSE IF host.result = "SHFL_FILE_EXISTS" THEN rerr
    ELSE 0 - ENOENT

sf_dir_open ==
    /\ dpc = "closed"
    /\ \E alloc \in BOOLEAN, host \in HostDirOutcomes,
          rerr \in {0, 0 - ENOMEM}, es \in Listings :
       \E i \in 0..Len(es) : \E j \in i..Len(es) : \E keepEmpty \in BOOLEAN :
          IF ~alloc
          THEN /\ dpc' = "failed"
               /\ dlast' = [DirIdle EXCEPT !.op = "open", !.ret = 0 - ENOMEM]
               /\ UNCHANGED <<info_list, dsnap, dcalls>>
          ELSE LET err == sf_dir_open_err(host, rerr) IN
               /\ dcalls' = dcalls \o sf_dir_open_calls(host, rerr)
               /\ dlast' = [DirIdle EXCEPT !.op = "open", !.ret = err]
               /\ IF err = 0
                  THEN /\ dpc' = "open"
                       /\ info_list' = vboxsf_dir_read_all(es, i, j, keepEmpty)
                       /\ dsnap' = es
                  ELSE /\ dpc' = "failed"
                       /\ UNCHANGED <<info_list, dsnap>>
    /\ UNCHANGED <<ctx_pos, emitted, pass1, rewound>>
    /\ UNCHANGED <<force_restat, i_size>>
    /\ UNCHANGED fileVars
    /\ UNCHANGED <<rwVars, nsVars>>

\* ---- sf_dir_iterate, one getdents call
\* an enumeration that takes what it returns out of the snapshot
sf_dir_iterate_consuming ==
    /\ dpc = "open"
    /\ \E cap \in 0..MaxCap :
         LET run == sf_dir_iterate_loop(info_list, ctx_pos, cap, <<>>) IN
         /\ ctx_pos' = ctx_pos
         /\ info_list' = IF run.pos > ctx_pos THEN Tail(info_list)
                         ELSE info_list
         /\ emitted' = emitted \o run.out
         /\ dlast' = [op |-> "iterate", ret |-> run.ret, pos0 |-> ctx_pos,
                      cap |-> cap, n |-> Len(run.out)]
    /\ UNCHANGED <<dpc, dsnap, pass1, rewound, dcalls>>
    /\ UNCHANGED <<force_restat, i_size>>
    /\ UNCHANGED fileVars
    /\ UNCHANGED <<rwVars, nsVars>>

sf_dir_iterate ==
    /\ dpc = "open"
    /\ \E cap \in 0..MaxCap :
         LET run == sf_dir_iterate_loop(info_list, ctx_pos, cap, <<>>) IN
         /\ ctx_pos' = run.pos
         /\ emitted' = emitted \o run.out
         /\ dlast' = [op |-> "iterate", ret |-> run.ret, pos0 |-> ctx_pos,
                      cap |-> cap, n |-> Len(run.out)]
    /\ UNCHANGED <<dpc, info_list, dsnap, pass1, rewound, dcalls>>
    /\ UNCHANGED <<force_restat, i_size>>
    /\ UNCHANGED fileVars
    /\ UNCHANGED <<rwVars, nsVars>>

\* ---- generic_file_llseek(file, 0, SEEK_SET): rewinddir
dir_llseek_rewind ==
    /\ dpc = "open"
    /\ dlast.op = "iterate"
    /\ ctx_pos' = 0
    /\ pass1' = IF rewound THEN pass1 ELSE emitted
    /\ emitted' = <<>>
    /\ rewound' = TRUE
    /\ dlast' = [DirIdle EXCEPT !.op = "llseek", !.pos0 = ctx_pos]
    /\ UNCHANGED <<dpc, info_list, dsnap, dcalls>>
    /\ UNCHANGED <<force_restat, i_size>>
    /\ UNCHANGED fileVars
    /\ UNCHANGED <<rwVars, nsVars>>

\* ---- sf_dir_release
sf_dir_release ==
    /\ dpc \in {"open"}
    /\ dpc' = "released"
    /\ info_list' = <<>>
    /\ dlast' = [DirIdle EXCEPT !.op = "release", !.pos0 = ctx_pos]
    /\ UNCHANGED <<ctx_pos, dsnap, emitted, pass1, rewound, dcalls>>
    /\ UNCHANGED <<force_restat, i_size>>
    /\ UNCHANGED fileVars
    /\ UNCHANGED <<rwVars, nsVars>>

InitDir ==
    /\ FileQuiet
    /\ RWQuiet
    /\ DirQuiet
    /\ NsQuiet
    /\ force_restat = FALSE
    /\ i_size = PAGE_SIZE

NextDir ==
    \/ sf_dir_open
    \/ sf_dir_iterate
    \/ dir_llseek_rewind
    \/ sf_dir_release

SpecDir == InitDir /\ [][NextDir]_vars

(***************************************************************************)
(* Properties of the directory snapshot                                     *)
(***************************************************************************)
RECURSIVE DirTotal(_)
DirTotal(list) ==
    IF list = <<>> THEN 0 ELSE Head(list).entries + DirTotal(Tail(list))

Decodable(e) == vboxsf_nlscpy(e.name).err = 0

IsPrefix(a, b) == Len(a) <= Len(b) /\ SubSeq(b, 1, Len(a)) = a

\* C8: the snapshot is not modified between open and release (enumeration
\* changes only the caller's position), and an enumeration restarted from
\* position 0 yields the same (name, type, fabricated id) tuples, in the
\* same order, as the first enumeration did.
C8_SnapshotImmutable ==
    /\ [][(dpc = "open" /\ dpc' = "open") => info_list' = info_list]_vars
    /\ [](rewound => (IsPrefix(emitted, pass1) \/ IsPrefix(pass1, emitted)))

\* C8 witness: a first enumeration stopped part way, the position was set
\* back to 0 and the second enumeration has gone further than the first.
C8_Witness ==
    /\ dpc = "open"
    /\ rewound
    /\ dlast.op = "iterate"
    /\ Len(pass1) >= 1
    /\ Len(emitted) > Len(pass1)

RECURSIVE EmittedRange(_, _, _)
EmittedRange(es, lo, hi) ==
    IF lo >= hi THEN <<>>
    ELSE (IF Decodable(es[lo + 1])
          THEN << <<es[lo + 1].name, sf_get_d_type(es[lo + 1].mode),
                    lo + FAKE_INO_BASE>> >>
          ELSE <<>>)
         \o EmittedRange(es, lo + 1, hi)

\* C10: a record whose name cannot be converted is not emitted, the position
\* moves one past it and the loop goes on with the next record: what has been
\* emitted is exactly the decodable records before the position, in order;
\* sf_dir_iterate never returns a conversion error and never stops at an
\* undecodable record.
C10_UndecodableSkipped ==
    dpc = "open" =>
      /\ ctx_pos <= Len(dsnap)
      /\ emitted = EmittedRange(dsnap, 0, ctx_pos)
      /\ dlast.op = "iterate" =>
           /\ dlast.ret \in {0, 0 - EINVAL}
           /\ ctx_pos < Len(dsnap) => Decodable(dsnap[ctx_pos + 1])
           /\ dlast.ret = 0 - EINVAL =>
                 /\ ctx_pos < Len(dsnap)
                 /\ ctx_pos + FAKE_INO_BASE > INO_T_MAX

\* C10 witness: the last sf_dir_iterate call passed an undecodable record
\* and emitted a decodable record that comes after it.
C10_Witness ==
    /\ dpc = "open"
    /\ dlast.op = "iterate"
    /\ dlast.ret = 0
    /\ \E i \in 0..(Len(dsnap) - 1) : \E j \in 0..(Len(dsnap) - 1) :
          /\ dlast.pos0 <= i /\ i < j /\ j < ctx_pos
          /\ ~Decodable(dsnap[i + 1])
          /\ Decodable(dsnap[j + 1])
          /\ Len(emitted) >= 1
          /\ emitted[Len(emitted)][1] = dsnap[j + 1].name

\* positions (from 0) of the records of es whose name can be converted
DecodablePositions(es) ==
    SelectSeq([i \in 1..Len(es) |-> i - 1], LAMBDA p : Decodable(es[p + 1]))

PositionsBelow(ps, pos) == SelectSeq(ps, LAMBDA p : p < pos)

\* C11: the identifier emitted for the entry at position p is exactly
\* p + 0xbeef and fits ino_t; sf_dir_iterate returns -EINVAL exactly when
\* it is at an entry whose p + 0xbeef does not fit, and then that entry
\* has not been emitted and the position has not moved past it.
C11_FakeInoExactOrFatal ==
    dpc = "open" =>
      LET ps == DecodablePositions(dsnap) IN
      /\ Len(emitted) <= Len(ps)
      /\ \A k \in 1..Len(emitted) :
            /\ emitted[k][3] = ps[k] + FAKE_INO_BASE
            /\ emitted[k][3] <= INO_T_MAX
            /\ emitted[k][1] = dsnap[ps[k] + 1].name
      /\ dlast.op = "iterate" =>
           /\ dlast.ret = 0 - EINVAL <=>
                 /\ ctx_pos < Len(dsnap)
                 /\ Decodable(dsnap[ctx_pos + 1])
                 /\ ctx_pos + FAKE_INO_BASE > INO_T_MAX
           /\ dlast.ret = 0 - EINVAL =>
                 Len(emitted) = Len(PositionsBelow(ps, ctx_pos))

\* C11 witness: one sf_dir_iterate call emitted entries and then came to an
\* entry whose identifier does not fit: it returned -EINVAL at that entry.
C11_Witness ==
    /\ dpc = "open"
    /\ dlast.op = "iterate"
    /\ dlast.ret = 0 - EINVAL
    /\ dlast.n >= 1
    /\ dlast.n < dlast.cap
    /\ ctx_pos + FAKE_INO_BASE > INO_T_MAX
    /\ emitted[Len(emitted)][3] = INO_T_MAX

\* C12: when dir_emit refuses an entry sf_dir_iterate returns 0 with the
\* position at the refused entry.  After every call the entries emitted
\* since position 0 are the decodable entries before the position, each
\* once and in order; a call that returns 0 stopped either at end of stream
\* or at a decodable entry the consumer had no room for; a call whose
\* consumer had room emitted an entry or reached the end.
C12_RefusalKeepsPosition ==
    (dpc = "open" /\ dlast.op = "iterate") =>
      LET ps == DecodablePositions(dsnap) IN
      /\ dlast.n <= dlast.cap
      /\ [k \in 1..Len(emitted) |-> emitted[k][3] - FAKE_INO_BASE]
            = PositionsBelow(ps, ctx_pos)
      /\ \A k \in 1..Len(emitted) : \A l \in 1..Len(emitted) :
            k < l => emitted[k][3] < emitted[l][3]
      /\ dlast.ret = 0 =>
            \/ /\ ctx_pos = Len(dsnap)
               /\ Len(emitted) = Len(ps)
            \/ /\ dlast.n = dlast.cap
               /\ ctx_pos < Len(dsnap)
               /\ Decodable(dsnap[ctx_pos + 1])
               /\ Len(emitted) < Len(ps)
               /\ ps[Len(emitted) + 1] = ctx_pos

\* C12 witness: a consumer with room for one entry was refused the second;
\* the next call emitted that entry and reached the end of the stream.
C12_Witness ==
    /\ dpc = "open"
    /\ dlast.op = "iterate"
    /\ dlast.ret = 0
    /\ dlast.pos0 >= 1
    /\ dlast.n >= 1
    /\ ctx_pos = Len(dsnap)
    /\ Len(emitted) = 2
    /\ emitted[1][3] = FAKE_INO_BASE
    /\ emitted[2][3] = dlast.pos0 + FAKE_INO_BASE

(***************************************************************************)
(* Directory inode operations (SpecNs): sf_create / sf_mkdir, sf_unlink /   *)
(* sf_rmdir, sf_rename and sf_symlink on one dentry of the directory P;     *)
(* Q is the other directory a rename can move it to.                        *)
(***************************************************************************)
EPERM == 1
EROFS == 30

\* the file type bits of i_mode
S_IFIFO  == 4096
S_IFCHR  == 8192
S_IFDIR  == 16384
S_IFBLK  == 24576
S_IFREG  == 32768
S_IFLNK  == 40960
S_IFSOCK == 49152

\* a & b on non-negative integers
RECURSIVE BitAnd(_, _)
BitAnd(a, b) ==
    IF a = 0 \/ b = 0 THEN 0
    ELSE (a % 2) * (b % 2) + 2 * BitAnd(a \div 2, b \div 2)

\* mode & S_IFMT
FileType(mode) == ((mode % 65536) \div 4096) * 4096

\* the mode the host reports for the object behind a path: one of each type
HostObjectModes == { S_IFREG + 420, S_IFDIR + 493, S_IFLNK + 511,
                     S_IFIFO + 420, S_IFCHR + 432, S_IFBLK + 432,
                     S_IFSOCK + 493 }

\* the i_mode a node gets for a host object: a node is a file, a directory
\* or a symlink
sf_init_inode_mode(hmode) ==
    (IF FileType(hmode) \in {S_IFDIR, S_IFLNK} THEN FileType(hmode)
     ELSE S_IFREG) + (hmode % 4096)

InodeModes == { sf_init_inode_mode(hm) : hm \in HostObjectModes }

\* an sf_instantiate that leaves the new inode's force_restat clear
sf_instantiate_norestat(mode, ok) ==
    IF ok THEN [err |-> 0, inode |-> [mode |-> sf_init_inode_mode(mode),
                                      restat |-> FALSE, hmode |-> mode]]
    ELSE [err |-> 0 - ENOMEM, inode |-> NoInode]

\* ---- sf_instantiate: the new inode, or the error of vboxsf_new_inode
sf_instantiate(mode, ok) ==
    IF ok THEN [err |-> 0, inode |-> [mode |-> sf_init_inode_mode(mode),
                                      restat |-> TRUE, hmode |-> mode]]
    ELSE [err |-> 0 - ENOMEM, inode |-> NoInode]

\* ---- sf_create_aux
CreateFlags(is_dir) ==
    {"SHFL_CF_ACT_CREATE_IF_NEW", "SHFL_CF_ACT_FAIL_IF_EXISTS"}
    \cup SHFL_CF_ACCESS_READWRITE
    \cup (IF is_dir THEN {"SHFL_CF_DIRECTORY"} ELSE {})

\* what the host answers to create-if-new + fail-if-exists
HostCreateOutcomes(exists) ==
    { [err |-> 0 - EIO, result |-> "none", handle |-> "SHFL_HANDLE_NIL"] }
    \cup (IF exists
          THEN { [err |-> 0, result |-> "SHFL_FILE_EXISTS",
                  handle |-> "SHFL_HANDLE_NIL"] }
          ELSE { [err |-> 0, result |-> "SHFL_FILE_CREATED", handle |-> "H"],
                 [err |-> 0, result |-> "SHFL_PATH_NOT_FOUND",
                  handle |-> "SHFL_HANDLE_NIL"] })

\* a create that never closes the handle it was given
sf_create_aux_calls_noclose(is_dir, host) ==
    <<RemoteCall("create", host.handle, CreateFlags(is_dir), host.err,
                 host.result)>>

\* the remote calls of sf_create_aux, in order
sf_create_aux_calls(is_dir, host) ==
    <<RemoteCall("create", host.handle, CreateFlags(is_dir), host.err,
                 host.result)>>
    \o (IF host.err = 0 /\ host.result = "SHFL_FILE_CREATED"
        THEN <<RemoteCall("close", host.handle, {}, 0, "none")>>
        ELSE <<>>)

\* a create that takes any answer without a transport error as success
sf_create_aux_err_lax(host, inst) ==
    IF host.err # 0 THEN host.err
    ELSE inst.err

sf_create_aux_err(host, inst) ==
    IF host.err # 0 THEN host.err
    ELSE IF host.result # "SHFL_FILE_CREATED" THEN 0 - EPERM
    ELSE inst.err

sf_create_aux ==
    /\ dnode.mode = 0
    /\ \E is_dir \in BOOLEAN, host \in HostCreateOutcomes(hostpath),
          inst_ok \in BOOLEAN :
         LET mode == (IF is_dir THEN S_IFDIR ELSE S_IFREG) + 420
             inst == sf_instantiate(mode, inst_ok)
             err  == sf_create_aux_err(host, inst)
         IN  /\ nlast' = [NsIdle EXCEPT !.op = "create", !.ret = err,
                             !.calls = sf_create_aux_calls(is_dir, host),
                             !.is_dir = is_dir, !.existed = hostpath]
             /\ hostpath' = (hostpath \/ (host.err = 0 /\
                                host.result = "SHFL_FILE_CREATED"))
             /\ IF err = 0
                THEN /\ dnode' = inst.inode
                     /\ dir_restat' = [dir_restat EXCEPT !["P"] = TRUE]
                ELSE UNCHANGED <<dnode, dir_restat>>
    /\ UNCHANGED <<force_restat, i_size>>
    /\ UNCHANGED <<fileVars, rwVars, dirVars>>

\* ---- sf_unlink_aux
\* a remove that takes the symlink bits for a mask
RemoveFlags_anybit(is_dir, mode) ==
    (IF is_dir THEN {"SHFL_REMOVE_DIR"} ELSE {"SHFL_REMOVE_FILE"})
    \cup (IF BitAnd(mode, S_IFLNK) # 0 THEN {"SHFL_REMOVE_SYMLINK"} ELSE {})

RemoveFlags(is_dir, mode) ==
    (IF is_dir THEN {"SHFL_REMOVE_DIR"} ELSE {"SHFL_REMOVE_FILE"})
    \cup (IF BitAnd(mode, S_IFLNK) = S_IFLNK
          THEN {"SHFL_REMOVE_SYMLINK"} ELSE {})

sf_unlink_aux ==
    /\ dnode.mode # 0
    /\ \E is_dir \in BOOLEAN, path_ok \in BOOLEAN,
          herr \in (IF hostpath THEN {0, 0 - EIO} ELSE {0 - ENOENT}) :
         LET err == IF ~path_ok THEN 0 - ENOMEM ELSE herr IN
         /\ nlast' = [NsIdle EXCEPT !.op = "remove", !.ret = err,
                        !.calls = IF path_ok
                                  THEN <<RemoteCall("remove", "none",
                                           RemoveFlags(is_dir, dnode.mode),
                                           herr, "none")>>
                                  ELSE <<>>,
                        !.is_dir = is_dir, !.mode = dnode.mode,
                        !.existed = hostpath]
         /\ IF err = 0
            THEN /\ dir_restat' = [dir_restat EXCEPT !["P"] = TRUE]
                 /\ hostpath' = FALSE
                 /\ dnode' = NoInode
            ELSE UNCHANGED <<dir_restat, hostpath, dnode>>
    /\ UNCHANGED <<force_restat, i_size>>
    /\ UNCHANGED <<fileVars, rwVars, dirVars>>

\* ---- sf_rename
RenameFlagsOfVfs == { {}, {"RENAME_NOREPLACE"}, {"RENAME_EXCHANGE"} }

\* a rename that sends the file flags for every source
RenameFlags_always(mode) ==
    {"SHFL_RENAME_FILE", "SHFL_RENAME_REPLACE_IF_EXISTS"}

RenameFlags(mode) ==
    IF BitAnd(mode, S_IFDIR) # 0 THEN {}
    ELSE {"SHFL_RENAME_FILE", "SHFL_RENAME_REPLACE_IF_EXISTS"}

\* a rename that asks the host before it looks at the superblocks
sf_rename_precheck_late(flags, same_root) == flags # {}

\* if (flags) return -EINVAL; if (sf_g != GET_GLOB_INFO(...)) return -EINVAL
sf_rename_precheck(flags, same_root) == flags # {} \/ ~same_root

sf_rename ==
    /\ dnode.mode # 0
    /\ \E flags \in RenameFlagsOfVfs, same_root \in BOOLEAN,
          new_parent \in Parents, old_ok \in BOOLEAN, new_ok \in BOOLEAN,
          herr \in (IF hostpath THEN {0, 0 - EIO} ELSE {0 - ENOENT}) :
         /\ ~same_root => new_parent = "Q"
         /\ LET early == sf_rename_precheck(flags, same_root)
                called == ~early /\ old_ok /\ new_ok
                err == IF early THEN 0 - EINVAL
                       ELSE IF ~called THEN 0 - ENOMEM ELSE herr
            IN  /\ nlast' = [NsIdle EXCEPT !.op = "rename", !.ret = err,
                               !.calls = IF called
                                         THEN <<RemoteCall("rename", "none",
                                                  RenameFlags(dnode.mode),
                                                  herr, "none")>>
                                         ELSE <<>>,
                               !.mode = dnode.mode, !.hmode = dnode.hmode,
                               !.existed = hostpath,
                               !.flags = flags, !.same_root = same_root,
                               !.new_parent = new_parent]
                /\ IF called /\ herr = 0
                   THEN dir_restat' = [d \in Parents |->
                            IF d \in {"P", new_parent} THEN TRUE
                            ELSE dir_restat[d]]
                   ELSE UNCHANGED dir_restat
    /\ UNCHANGED <<dnode, hostpath>>
    /\ UNCHANGED <<force_restat, i_size>>
    /\ UNCHANGED <<fileVars, rwVars, dirVars>>

\* ---- sf_symlink
\* a symlink that hands every host error back as it came
sf_symlink_err_raw(herr) == herr

\* return (err == -EROFS) ? -EPERM : err
sf_symlink_err(herr) == IF herr = 0 - EROFS THEN 0 - EPERM ELSE herr

sf_symlink ==
    /\ dnode.mode = 0
    /\ \E path_ok \in BOOLEAN, mem_ok \in BOOLEAN, inst_ok \in BOOLEAN,
          herr \in (IF hostpath THEN {0 - EROFS, 0 - EIO}
                    ELSE {0, 0 - EROFS, 0 - EIO}) :
         LET called == path_ok /\ mem_ok
             inst == sf_instantiate(S_IFLNK + 511, inst_ok)
             err == IF ~called THEN 0 - ENOMEM
                    ELSE IF herr # 0 THEN sf_symlink_err(herr)
                    ELSE inst.err
         IN  /\ nlast' = [NsIdle EXCEPT !.op = "symlink", !.ret = err,
                            !.calls = IF called
                                      THEN <<RemoteCall("symlink", "none", {},
                                                        herr, "none")>>
                                      ELSE <<>>,
                            !.existed = hostpath]
             /\ hostpath' = (hostpath \/ (called /\ herr = 0))
             /\ IF err = 0
                THEN /\ dnode' = inst.inode
                     /\ dir_restat' = [dir_restat EXCEPT !["P"] = TRUE]
                ELSE UNCHANGED <<dnode, dir_restat>>
    /\ UNCHANGED <<force_restat, i_size>>
    /\ UNCHANGED <<fileVars, rwVars, dirVars>>

\* ---- a fresh stat of a directory or of the dentry's inode clears its flag
inode_revalidate ==
    /\ \/ \E d \in Parents :
             /\ dir_restat[d]
             /\ dir_restat' = [dir_restat EXCEPT ![d] = FALSE]
             /\ UNCHANGED dnode
       \/ /\ dnode.restat
          /\ dnode' = [dnode EXCEPT !.restat = FALSE]
          /\ UNCHANGED dir_restat
    /\ nlast' = [NsIdle EXCEPT !.op = "restat"]
    /\ UNCHANGED hostpath
    /\ UNCHANGED <<force_restat, i_size>>
    /\ UNCHANGED <<fileVars, rwVars, dirVars>>

\* ---- the host or another guest creates or removes the object
host_out_of_band ==
    /\ hostpath' = ~hostpath
    /\ nlast' = [NsIdle EXCEPT !.op = "host"]
    /\ UNCHANGED <<dir_restat, dnode>>
    /\ UNCHANGED <<force_restat, i_size>>
    /\ UNCHANGED <<fileVars, rwVars, dirVars>>

\* ---- sf_dentry_revalidate
ECHILD == 10

\* vboxsf_stat_dentry: what a stat of the dentry's path returns
HostStatOutcomes(exists) ==
    (IF exists THEN {0} ELSE {0 - ENOENT}) \cup {0 - EIO}

\* vboxsf_inode_revalidate: a fresh stat of the path; its error is returned
vboxsf_inode_revalidate(herr) == herr

\* a revalidate that keeps a negative dentry whenever the stat failed
sf_dentry_revalidate_ret_anyerr(rcu, positive, herr) ==
    IF rcu THEN 0 - ECHILD
    ELSE IF positive
    THEN (IF vboxsf_inode_revalidate(herr) = 0 THEN 1 ELSE 0)
    ELSE (IF herr # 0 THEN 1 ELSE 0)

\* the value sf_dentry_revalidate returns
sf_dentry_revalidate_ret(rcu, positive, herr) ==
    IF rcu THEN 0 - ECHILD
    ELSE IF positive
    THEN (IF vboxsf_inode_revalidate(herr) = 0 THEN 1 ELSE 0)
    ELSE (IF herr = 0 - ENOENT THEN 1 ELSE 0)

sf_dentry_revalidate ==
    /\ \E rcu \in BOOLEAN, herr \in HostStatOutcomes(hostpath) :
         LET positive == dnode.mode # 0 IN
         /\ nlast' = [NsIdle EXCEPT !.op = "revalidate",
                        !.ret = sf_dentry_revalidate_ret(rcu, positive, herr),
                        !.calls = IF rcu THEN <<>>
                                  ELSE <<RemoteCall("stat", "none", {}, herr,
                                                    "none")>>,
                        !.flags = IF rcu THEN {"LOOKUP_RCU"} ELSE {},
                        !.mode = dnode.mode, !.existed = hostpath]
         /\ dnode' = IF ~rcu /\ positive /\ herr = 0
                     THEN [dnode EXCEPT !.restat = FALSE] ELSE dnode
    /\ UNCHANGED <<dir_restat, hostpath>>
    /\ UNCHANGED <<force_restat, i_size>>
    /\ UNCHANGED <<fileVars, rwVars, dirVars>>

InitNs ==
    /\ FileQuiet
    /\ RWQuiet
    /\ DirQuiet
    /\ force_restat = FALSE
    /\ i_size = PAGE_SIZE
    /\ dir_restat = [d \in Parents |-> FALSE]
    /\ dnode \in {NoInode} \cup
                {[mode |-> sf_init_inode_mode(hm), restat |-> FALSE,
                  hmode |-> hm] : hm \in HostObjectModes}
    /\ hostpath = (dnode.mode # 0)
    /\ nlast = NsIdle

NextNs ==
    \/ sf_create_aux
    \/ sf_unlink_aux
    \/ sf_rename
    \/ sf_symlink
    \/ inode_revalidate
    \/ host_out_of_band
    \/ sf_dentry_revalidate

SpecNs == InitNs /\ [][NextNs]_vars

(***************************************************************************)
(* sf_write_end: the buffered write path hands back a page it has filled    *)
(***************************************************************************)
sf_write_end(f, p) ==
    /\ fpc[f] = "open"
    /\ SHFL_CF_ACCESS_WRITE \subseteq access_flags[f]
    /\ ~page[p].locked
    /\ \E from \in {0, 1}, whole \in BOOLEAN, err \in {"OK", "EIO"},
          short \in BOOLEAN :
         LET pos == page_offset(p) + from
             len == IF whole THEN PAGE_SIZE - from ELSE 1
             nwritten == IF err # "OK" \/ short THEN 0 ELSE len
             call == [RWIdle EXCEPT !.op = "write_end", !.pos = pos,
                         !.req = len, !.calls = 1, !.err = err,
                         !.host = nwritten, !.ret = nwritten,
                         !.size0 = i_size]
         IN  /\ rw' = call
             /\ IF err # "OK"
                THEN UNCHANGED <<force_restat, page, i_size>>
                ELSE /\ force_restat' = TRUE
                     /\ page' = [page EXCEPT ![p].uptodate =
                                    IF ~@ /\ nwritten = PAGE_SIZE THEN TRUE
                                    ELSE @]
                     /\ i_size' = IF pos + nwritten > i_size
                                  THEN pos + nwritten ELSE i_size
    /\ UNCHANGED <<handle_list, access_flags, refcount, closes, fpc, fret,
                   todo, atclose, written, failed, wp>>
    /\ UNCHANGED <<f_flags_append, f_pos, rwops>>
    /\ UNCHANGED <<dirVars, nsVars>>

\* a fresh stat of the regular file's inode clears its flag
file_inode_revalidate ==
    /\ force_restat
    /\ force_restat' = FALSE
    /\ UNCHANGED i_size
    /\ UNCHANGED <<fileVars, rwVars, dirVars, nsVars>>

(***************************************************************************)
(* SpecOps: every operation that opens something on the host or changes    *)
(* it, each family from the state the others have not touched: one file     *)
(* with background writeback, direct read / write, sf_dir_open, and the     *)
(* directory inode operations.                                              *)
(***************************************************************************)
FileFamily == rwops = 0 /\ f_pos = 0 /\ ~f_flags_append /\ DirQuiet /\ NsQuiet
RWFamily   == FileQuiet /\ DirQuiet /\ NsQuiet
DirFamily  == FileQuiet /\ RWQuiet /\ NsQuiet
NsFamily   == FileQuiet /\ RWQuiet /\ DirQuiet

InitOps == InitFile \/ InitRW \/ InitNs

NextOps ==
    \/ FileFamily /\ sf_reg_open(1)
    \/ FileFamily /\ \E p \in Pages : sf_page_mkwrite(1, p)
    \/ FileFamily /\ \E p \in Pages : sf_writepage_begin(BG, p)
    \/ FileFamily /\ sf_writepage_write(BG)
    \/ FileFamily /\ sf_writepage_put(BG)
    \/ FileFamily /\ sf_writepage_finish(BG)
    \/ FileFamily /\ \E p \in Pages : sf_write_end(1, p)
    \/ FileFamily /\ fpc[1] = "open" /\ file_inode_revalidate
    \/ RWFamily /\ sf_reg_read
    \/ RWFamily /\ sf_reg_write
    \/ DirFamily /\ sf_dir_open
    \/ NsFamily /\ NextNs

SpecOps == InitOps /\ [][NextOps]_vars

\* remote handles a sequence of remote calls was given and did not close
Unclosed(calls) ==
    { calls[k].handle : k \in { i \in 1..Len(calls) :
                                 /\ calls[i].call = "create"
                                 /\ calls[i].err = 0
                                 /\ calls[i].handle # "SHFL_HANDLE_NIL" } }
    \ { calls[k].handle : k \in { i \in 1..Len(calls) :
                                   calls[i].call = "close" } }

C14_ExclusiveCreate ==
    /\ [](nlast.op = "create" =>
            LET c == nlast.calls[1] IN
            /\ c.call = "create"
            /\ {"SHFL_CF_ACT_CREATE_IF_NEW", "SHFL_CF_ACT_FAIL_IF_EXISTS"}
                  \subseteq c.flags
            /\ ("SHFL_CF_DIRECTORY" \in c.flags) <=> nlast.is_dir
            /\ nlast.ret = 0 =>
                  /\ c.err = 0
                  /\ c.result = "SHFL_FILE_CREATED"
                  /\ c.handle # "SHFL_HANDLE_NIL"
                  /\ ~nlast.existed
                  /\ dnode.mode # 0 /\ dnode.restat /\ dir_restat["P"]
            /\ (c.err = 0 /\ c.result # "SHFL_FILE_CREATED")
                  => nlast.ret = 0 - EPERM
            /\ nlast.existed =>
                  /\ nlast.ret # 0
                  /\ c.err = 0 => nlast.ret = 0 - EPERM
                  /\ dnode = NoInode)
    /\ [][(nlast'.op = "create" /\ nlast'.ret # 0 /\ sf_create_aux)
             => (dnode' = dnode /\ dir_restat' = dir_restat)]_vars

\* C14 witness: an exclusive create on a path the host already has came
\* back with -EPERM; no inode, and the parent's flag is still clear.
C14_Witness ==
    /\ nlast.op = "create"
    /\ nlast.existed
    /\ nlast.ret = 0 - EPERM
    /\ nlast.calls[1].result = "SHFL_FILE_EXISTS"
    /\ dnode = NoInode
    /\ ~dir_restat["P"]

\* C15: sf_reg_open succeeds exactly when the sf_handle was allocated and
\* the host returned err == 0 with a non-nil handle, and then adds one handle
\* with reference count 1 at the head of the list; with err == 0 and a nil
\* handle it fails with EEXIST if the result is SHFL_FILE_EXISTS and with
\* ENOENT otherwise, adds nothing and leaves force_restat alone.
C15_RegOpenNeedsHandle ==
    [][\A f \in Files :
         (fpc[f] = "init" /\ fpc'[f] # "init") =>
           \A alloc \in BOOLEAN, accmode \in AccModes, append \in BOOLEAN,
              host \in HostOpenOutcomes :
             sf_reg_open_step(f, alloc, accmode, append, host) =>
               /\ fpc'[f] = "open" <=>
                     (alloc /\ host.err = "OK"
                            /\ host.handle # "SHFL_HANDLE_NIL")
               /\ fpc'[f] = "open" =>
                     /\ handle_list' = <<f>> \o handle_list
                     /\ refcount'[f] = 1
                     /\ \A g \in Files \ {f} : refcount'[g] = refcount[g]
               /\ (alloc /\ host.err = "OK"
                         /\ host.handle = "SHFL_HANDLE_NIL") =>
                     /\ fret'[f] = (IF host.result = "SHFL_FILE_EXISTS"
                                    THEN "EEXIST" ELSE "ENOENT")
                     /\ handle_list' = handle_list
                     /\ refcount' = refcount
                     /\ force_restat' = force_restat]_vars

\* C15 witness: an open the host answered with err == 0, result
\* SHFL_FILE_EXISTS and a nil handle failed with EEXIST; the list is empty
\* and force_restat is clear.
C15_Witness ==
    /\ fpc[1] = "failed"
    /\ fret[1] = "EEXIST"
    /\ handle_list = <<>>
    /\ ~force_restat

\* C16: sf_rename with a non-zero flags argument, or to a directory of
\* another superblock (another shared folder), returns -EINVAL, makes no
\* remote call and changes no force_restat flag.
C16_RenameRejectedEarly ==
    /\ []((nlast.op = "rename" /\ (nlast.flags # {} \/ ~nlast.same_root))
            => (nlast.ret = 0 - EINVAL /\ nlast.calls = <<>>))
    /\ [][(nlast'.op = "rename" /\ (nlast'.flags # {} \/ ~nlast'.same_root)
             /\ sf_rename)
            => (dir_restat' = dir_restat /\ dnode' = dnode)]_vars

\* C16 witness: a rename without flags to a directory of another shared
\* folder was rejected; nothing was marked.
C16_Witness ==
    /\ nlast.op = "rename"
    /\ nlast.flags = {}
    /\ ~nlast.same_root
    /\ nlast.ret = 0 - EINVAL
    /\ nlast.calls = <<>>
    /\ \A d \in Parents : ~dir_restat[d]

C18_RemoveFlags ==
    /\ []((nlast.op = "remove" /\ Len(nlast.calls) = 1) =>
            LET fl == nlast.calls[1].flags IN
            /\ ("SHFL_REMOVE_DIR" \in fl) <=> nlast.is_dir
            /\ ("SHFL_REMOVE_FILE" \in fl) <=> ~nlast.is_dir
            /\ ("SHFL_REMOVE_SYMLINK" \in fl)
                  <=> FileType(nlast.mode) = S_IFLNK
            /\ fl \subseteq {"SHFL_REMOVE_DIR", "SHFL_REMOVE_FILE",
                             "SHFL_REMOVE_SYMLINK"})
    /\ []((nlast.op = "remove" /\ nlast.ret = 0) => dir_restat["P"])
    /\ [][(nlast'.op = "remove" /\ nlast'.ret # 0 /\ sf_unlink_aux)
            => (dir_restat' = dir_restat /\ dnode' = dnode)]_vars

\* C18 witness: an unlink of a symbolic link succeeded and the parent is
\* marked.
C18_Witness ==
    /\ nlast.op = "remove"
    /\ ~nlast.is_dir
    /\ FileType(nlast.mode) = S_IFLNK
    /\ nlast.ret = 0
    /\ nlast.calls[1].flags = {"SHFL_REMOVE_FILE", "SHFL_REMOVE_SYMLINK"}
    /\ dir_restat["P"]

\* C19: sf_symlink returns -EPERM when the host call returns -EROFS and
\* returns every other host error as it is; when it fails it instantiates
\* no inode and leaves the force_restat flags as they were.
C19_SymlinkErrors ==
    /\ []((nlast.op = "symlink" /\ Len(nlast.calls) = 1
             /\ nlast.calls[1].err # 0)
            => nlast.ret = (IF nlast.calls[1].err = 0 - EROFS
                            THEN 0 - EPERM ELSE nlast.calls[1].err))
    /\ []((nlast.op = "symlink" /\ nlast.ret # 0) => dnode = NoInode)
    /\ [][(nlast'.op = "symlink" /\ nlast'.ret # 0 /\ sf_symlink)
            => (dir_restat' = dir_restat /\ dnode' = dnode)]_vars

\* C19 witness: the host answered -EROFS and sf_symlink returned -EPERM.
C19_Witness ==
    /\ nlast.op = "symlink"
    /\ Len(nlast.calls) = 1
    /\ nlast.calls[1].err = 0 - EROFS
    /\ nlast.ret = 0 - EPERM
    /\ dnode = NoInode
    /\ ~dir_restat["P"]

\* C20: every operation that changed the host and returned success leaves
\* force_restat set on the inodes it affected: the file's inode after a
\* direct write that reached the host, after sf_write_end, after a
\* writeback and after sf_reg_open; the new inode and the parent after
\* create, mkdir and symlink; the parent after unlink and rmdir; the old
\* and the new parent after rename.  Only a fresh stat clears a flag.
C20_SuccessSetsForceRestat ==
    /\ [][(rwops' = rwops + 1 /\ rw'.op = "write" /\ rw'.calls = 1
             /\ rw'.err = "OK") => force_restat']_vars
    /\ [][(rw'.op = "write_end" /\ rw'.err = "OK"
             /\ \E p \in Pages : sf_write_end(1, p)) => force_restat']_vars
    /\ [][\A t \in Threads :
            (wp[t].pc = "finish" /\ wp'[t].pc = "idle" /\ wp[t].err = "OK")
              => force_restat']_vars
    /\ [][\A f \in Files :
            (fpc[f] = "init" /\ fpc'[f] = "open") => force_restat']_vars
    /\ [][(nlast'.op \in {"create", "symlink"} /\ nlast'.ret = 0
             /\ (sf_create_aux \/ sf_symlink))
            => (dnode'.mode # 0 /\ dnode'.restat /\ dir_restat'["P"])]_vars
    /\ [][(nlast'.op = "remove" /\ nlast'.ret = 0 /\ sf_unlink_aux)
            => dir_restat'["P"]]_vars
    /\ [][(nlast'.op = "rename" /\ nlast'.ret = 0 /\ sf_rename)
            => (dir_restat'["P"] /\ dir_restat'[nlast'.new_parent])]_vars
    /\ [][/\ (force_restat /\ ~force_restat') => file_inode_revalidate
          /\ (\E d \in Parents : dir_restat[d] /\ ~dir_restat'[d])
                => inode_revalidate
          /\ (dnode.restat /\ dnode'.mode # 0 /\ ~dnode'.restat)
                => (inode_revalidate \/ nlast'.op = "revalidate")
         ]_vars

\* C20 witness: a created object was renamed into the other directory; the
\* new inode and both parents have force_restat set.
C20_Witness ==
    /\ nlast.op = "rename"
    /\ nlast.ret = 0
    /\ nlast.new_parent = "Q"
    /\ dnode.restat
    /\ dir_restat["P"]
    /\ dir_restat["Q"]

C22_ListedHandlesAreLive ==
    /\ [](\A k \in 1..Len(handle_list) :
            /\ refcount[handle_list[k]] >= 1
            /\ closes[handle_list[k]] = 0)
    /\ [](\A t \in Threads :
            wp[t].pc \in {"write", "put"} =>
              /\ refcount[wp[t].h] >= 1
              /\ closes[wp[t].h] = 0)
    /\ [][\A t \in Threads :
            (wp[t].pc = "idle" /\ wp'[t].pc = "write") =>
              /\ wp'[t].h \in Range(handle_list)
              /\ refcount[wp'[t].h] >= 1
              /\ closes[wp'[t].h] = 0
              /\ refcount'[wp'[t].h] = refcount[wp'[t].h] + 1]_vars

\* C22 witness: the file's sf_reg_release has completed while a writeback
\* thread is about to write on the file's handle, which is still open.
C22_Witness ==
    \E t \in Threads :
        /\ wp[t].pc = "write"
        /\ wp[t].h # t
        /\ fpc[wp[t].h] = "done"
        /\ wp[t].h \notin Range(handle_list)
        /\ refcount[wp[t].h] = 1
        /\ closes[wp[t].h] = 0

(***************************************************************************)
(* SpecWP: sf_writepage on the pages of one file that stays open for        *)
(* reading and writing, while stats bring the inode's size in line with     *)
(* the host's.                                                              *)
(***************************************************************************)
NWbPages == 3     \* pages of the mapping in SpecWP

WbPages == 0..(NWbPages - 1)

\* the sizes a stat can report: around each page boundary
WbSizes == {0, 1, PAGE_SIZE - 3, PAGE_SIZE, PAGE_SIZE + 1, 2 * PAGE_SIZE,
            2 * PAGE_SIZE + 3, NWbPages * PAGE_SIZE}

\* a stat of the open file: i_size becomes the size on the host and
\* force_restat is cleared
file_size_revalidate ==
    /\ fpc[1] = "open"
    /\ \E size \in WbSizes : i_size' = size
    /\ force_restat' = FALSE
    /\ UNCHANGED <<fileVars, rwVars, dirVars, nsVars>>

InitWP ==
    /\ handle_list = <<>>
    /\ access_flags = [f \in Files |-> {}]
    /\ refcount = [f \in Files |-> 0]
    /\ closes = [f \in Files |-> 0]
    /\ fpc = [f \in Files |-> "init"]
    /\ fret = [f \in Files |-> "none"]
    /\ todo = [f \in Files |-> {}]
    /\ atclose = [f \in Files |-> {}]
    /\ written = [f \in Files |-> {}]
    /\ failed = [f \in Files |-> {}]
    /\ page = [p \in WbPages |-> [dirty |-> FALSE, uptodate |-> TRUE,
                                  error |-> FALSE, locked |-> FALSE]]
    /\ wp = [t \in Threads |-> WpIdle]
    /\ force_restat = FALSE
    /\ i_size = NWbPages * PAGE_SIZE
    /\ RWQuiet
    /\ DirQuiet
    /\ NsQuiet

NextWP ==
    \/ sf_reg_open(1)
    \/ \E p \in WbPages : sf_page_mkwrite(1, p)
    \/ \E p \in WbPages : sf_writepage_begin(BG, p)
    \/ sf_writepage_write(BG)
    \/ sf_writepage_put(BG)
    \/ sf_writepage_finish(BG)
    \/ file_size_revalidate

SpecWP == InitWP /\ [][NextWP]_vars

\* C23: for the page offset off and the size sf_writepage reads, the write
\* it requests is min(PAGE_SIZE, size - off) bytes when off < size, and
\* never ends past size (off + nwrite <= size), also for a page that lies
\* at or beyond the size.
C23_WritepageWithinSize ==
    [][\A t \in Threads :
         (wp[t].pc = "idle" /\ wp'[t].pc = "write") =>
            LET off == page_offset(wp'[t].page)
                nwrite == wp'[t].nwrite
            IN  /\ off < i_size => nwrite = Min(PAGE_SIZE, i_size - off)
                /\ off + nwrite <= i_size]_vars

\* C24: sf_writepage has unlocked the page and put every handle reference
\* it took whenever it has returned, on each of its paths (remote write
\* done, remote write failed, no writable handle): a page is locked only
\* while an sf_writepage call is working on it, and a thread that is not
\* inside sf_writepage holds no handle reference.
C24_WritepageUnlocksAndPuts ==
    /\ \A p \in DOMAIN page :
          page[p].locked =>
             \E t \in Threads : wp[t].pc # "idle" /\ wp[t].page = p
    /\ \A h \in Files :
          Opened(h) =>
             refcount[h] = FileRef(h)
                + Cardinality({t \in Threads : wp[t].pc \in {"write", "put"}
                                                /\ wp[t].h = h})

====
